---- MODULE Spec2Model ----
(***************************************************************************)
(* Release tracker: the run driver (run_full_check), the per-entry         *)
(* orchestrator (RepoProcessor) and the adapter cache of src/main.py, over *)
(* the Redis-set state store of src/persistence/redis_store.py; the        *)
(* start-up of a run and a sequence of runs over one store; and, each on   *)
(* its own, download_asset with its retry policy, the adapter registry     *)
(* build_watcher, the two state stores, the maintenance operations of the  *)
(* Redis-set store, the persistence keys of two entries, the two modes of  *)
(* main on one entry, and HTTPConfigLoader.load with its retry policy.     *)
(*                                                                         *)
(* Strings that the code inspects character by character (persistence      *)
(* keys, tags, set members) are sequences of one-character strings.        *)
(* The external collaborators (adapter fetch, adapter constructor, store,  *)
(* notifier send, asset download, deleting a downloaded file) may fail;    *)
(* creating the local downloads directory is taken to succeed.             *)
(***************************************************************************)
EXTENDS Integers, Sequences, FiniteSets, TLC

VARIABLES
    pc,             \* position of the run: loop head, a step of process(), finished
    idx,            \* number of entries of config["repos"] taken so far
    nrepos,         \* len(config["repos"])
    forceEnv,       \* os.getenv("FORCE_NOTIFY")
    envV,           \* whether the variable V behind the placeholder ${V} is set
                    \* (to the string coded 1) or unset
    globalUpload,   \* config.get("upload_assets", False)
    notifiers,      \* message_format of each active notifier, in order
    redis_set,      \* members of the Redis set self.prefix
    written,        \* files in the downloads directory that download_asset wrote
                    \* for the current entry
    watcher_cache,  \* cache_key -> index into watchers
    watchers,       \* adapter instances built so far in this run
    uses,           \* one record per _get_watcher() call that returned
    prev,           \* summary of the entry processed before the current one
    entry,          \* RepoProcessor.repo_entry
    merged_conf,    \* RepoProcessor.merged_conf
    watcher,        \* index of the adapter process() works with (0: none)
    release,        \* the fetched ReleaseInfo
    last_tag,       \* what get_last_release returned
    attachments,    \* paths returned by process_assets so far
    ai,             \* assets of the release handled so far
    ni,             \* notifiers handled so far
    calls,          \* calls made on the collaborators during this entry
    store0,         \* redis_set when the entry started
    outcome,        \* how process() ended for this entry
    persistence,    \* config.get("persistence", {})
    notifier_confs, \* config.get("notifiers", [])
    backend,        \* how get_backend ended in this run: "none" yet, "ok", "failed"
    run,            \* number of the run, counting from 1
    dl,             \* one download_asset call: its attempts, their errors, its waits
    reg,            \* one build_watcher call: its arguments and how it ended
    file_data,      \* FileBackend.data
    expected,       \* the tag last set for each key by a set_last_release that returned
    got,            \* the last get_last_release call on the two stores
    maint,          \* the last call made on the Redis-set store by a maintenance
                    \* caller: its argument, the set before it, what it returned
    pair,           \* two entries of config["repos"] and their persistence keys
    single,         \* the two modes of main over one configuration: config["repos"],
                    \* the repository and the --watcher option of the single-repo
                    \* call, the store both modes start from, and what the
                    \* single-repo call found, constructed and did
    loader          \* one HTTPConfigLoader.load call: its attempts, their errors

vars == <<pc, idx, nrepos, forceEnv, envV, globalUpload, notifiers, redis_set,
          written, watcher_cache, watchers, uses, prev, entry,
          merged_conf, watcher, release, last_tag, attachments, ai, ni, calls,
          store0, outcome, persistence, notifier_confs, backend, run, dl, reg,
          file_data, expected, got, maint, pair, single, loader>>

runVars == <<nrepos, forceEnv, envV, globalUpload, notifiers>>

startVars == <<persistence, notifier_confs, backend, run>>

auxVars == <<maint, pair, single, loader>>

unitVars == <<dl, reg, file_data, expected, got, auxVars>>

(***************************************************************************)
(* Bounds                                                                  *)
(***************************************************************************)
MaxEntries == 2
MaxCacheEntries == 3
MaxRuns == 2

(***************************************************************************)
(* Strings and optional values                                             *)
(***************************************************************************)
None == <<"None">>
Absent == <<"KeyError">>

Range(s) == {s[i] : i \in 1..Len(s)}

startswith(s, p) == Len(p) <= Len(s) /\ SubSeq(s, 1, Len(p)) = p

FirstColon(s) == CHOOSE i \in 1..Len(s) : s[i] = ":" /\ \A j \in 1..(i - 1) : s[j] # ":"

\* member.split(":", 1)[1]
split_colon_1(s) == SubSeq(s, FirstColon(s) + 1, Len(s))

(***************************************************************************)
(* Configuration values: kind "int", "bool", "str" (hashable) or "list"    *)
(* (unhashable); "ph" is the string "${V}" before placeholder resolution.  *)
(* A string is coded by a number, 0 being the empty string.                *)
(***************************************************************************)
VInt(n) == [kind |-> "int", v |-> n]
VBool(b) == [kind |-> "bool", v |-> IF b THEN 1 ELSE 0]
VStr(c) == [kind |-> "str", v |-> c]
VList(n) == [kind |-> "list", v |-> n]
VPh == [kind |-> "ph", v |-> 0]

EmptyConf == [k \in {} |-> VInt(0)]
Conf1(k, val) == [j \in {k} |-> val]

\* {**base_conf.get("config", {}), **self.override_conf}
MergeConf(base, override) ==
    [k \in DOMAIN base \cup DOMAIN override |->
        IF k \in DOMAIN override THEN override[k] ELSE base[k]]

\* _resolve_value_recursive on one value: "${V}" becomes the stripped value
\* of V, or "" when V is not set; anything else is returned as it is
resolve_value(val, env) ==
    IF val.kind = "ph" THEN (IF env = "unset" THEN VStr(0) ELSE VStr(1)) ELSE val

resolve_env_placeholders_recursive(conf, env) ==
    [k \in DOMAIN conf |-> resolve_value(conf[k], env)]

\* bool(value)
Truthy(val) ==
    CASE val.kind = "list" -> TRUE
      [] val.kind = "str" -> val.v # 0
      [] OTHER -> val.v # 0

\* dict.get(k, default)
ConfGet(conf, k, default) == IF k \in DOMAIN conf THEN conf[k] ELSE default

(***************************************************************************)
(* hash(): CPython hashes a small int to itself except hash(-1) = -2, the  *)
(* empty string to 0, True to 1; other strings hash to values taken to be  *)
(* distinct from each other and from the small ints (1000 + code).         *)
(* A tuple's or frozenset's hash is a function of its elements' hashes,    *)
(* taken to be injective in them.                                          *)
(***************************************************************************)
Hashable(conf) == \A k \in DOMAIN conf : conf[k].kind # "list"

PyHash(val) ==
    CASE val.kind = "str" -> (IF val.v = 0 THEN 0 ELSE 1000 + val.v)
      [] OTHER -> (IF val.v = -1 THEN -2 ELSE val.v)

\* hash(frozenset(sorted(conf.items())))
ConfigHash(conf) == {<<k, PyHash(conf[k])>> : k \in DOMAIN conf}

HashKey(wk, conf) == [w |-> wk, mode |-> "hash", h |-> ConfigHash(conf), id |-> 0]
IdKey(wk, n) == [w |-> wk, mode |-> "id", h |-> {}, id |-> n]

(***************************************************************************)
(* The configuration of a run.  watchers_conf is config["watchers"]: "w"   *)
(* has no "config" key, "a" turns asset upload on, "c" has a base option,   *)
(* "z" names a type build_watcher does not know, "d" a type whose class    *)
(* cannot be instantiated, "p" a type whose class is not defined.          *)
(***************************************************************************)
watchers_conf ==
    [k \in {<<"w">>, <<"a">>, <<"c">>, <<"z">>, <<"d">>, <<"p">>} |->
        CASE k = <<"w">> -> [type |-> "github", config |-> EmptyConf]
          [] k = <<"a">> -> [type |-> "gitlab",
                             config |-> Conf1("upload_assets", VBool(TRUE))]
          [] k = <<"c">> -> [type |-> "github", config |-> Conf1("x", VInt(-1))]
          [] k = <<"d">> -> [type |-> "dockerhub", config |-> EmptyConf]
          [] k = <<"p">> -> [type |-> "wordpress", config |-> EmptyConf]
          [] OTHER -> [type |-> "svn", config |-> EmptyConf]]

\* the types build_watcher has a branch for
SupportedTypes == {"github", "gitlab", "apkmirror", "apkpure", "fdroid", "pypi",
                   "dockerhub", "npm", "maven", "wordpress", "homebrew"}

\* the adapter classes that leave Watcher.get_source_url abstract: calling
\* the class raises TypeError
AbstractTypes == {"apkmirror", "apkpure", "dockerhub", "npm", "maven"}

\* the types whose branch calls a name that utils does not hold: the
\* "wordpress" branch calls WordPressWatcher, which src/watcher/wordpress.py
\* does not define (NameError)
UndefinedTypes == {"wordpress"}

\* build_watcher(type, config) returns an adapter
CanBuild(type) == type \in SupportedTypes \ (AbstractTypes \cup UndefinedTypes)

Entry(r, w, c) == [repo |-> r, watcher |-> w, config |-> c]

\* an entry of config["repos"] that is no mapping (a string, null):
\* subscripting it raises TypeError
ScalarEntry == Entry(<<"TypeError">>, <<"TypeError">>, EmptyConf)

\* entries of config["repos"] for the release pipeline
PipelineEntries ==
    {Entry(r, <<"w">>, EmptyConf) : r \in {<<"g">>, <<"g", ":", "a">>}}
    \cup {Entry(<<"g">>, <<"a">>, c) :
             c \in {EmptyConf, Conf1("upload_assets", VBool(FALSE))}}
    \cup {Entry(Absent, <<"w">>, EmptyConf), Entry(<<"g">>, Absent, EmptyConf),
          Entry(<<"g">>, <<"q">>, EmptyConf), Entry(<<"g">>, <<"z">>, EmptyConf),
          Entry(<<"g">>, <<"d">>, EmptyConf), Entry(<<"g">>, <<"p">>, EmptyConf),
          ScalarEntry}

\* entries of config["repos"] for the adapter cache
CacheConfs ==
    {EmptyConf} \cup {Conf1("x", val) :
        val \in {VInt(-1), VInt(-2), VList(0), VList(1), VStr(1), VPh}}

CacheEntries ==
    {Entry(<<"g">>, w, c) : w \in {<<"w">>, <<"a">>, <<"c">>}, c \in CacheConfs}

\* what an adapter can return: a release without assets, one with two
Releases == {[tag |-> <<"1">>, assets |-> <<>>, source_url |-> None],
             [tag |-> <<"2">>, assets |-> <<"f1", "f2">>, source_url |-> <<"u">>]}
NoRelease == [tag |-> None, assets |-> <<>>, source_url |-> None]

\* message_format of the notifiers get_notifier builds (AppriseNotifier
\* falls back to text for an unknown format)
NotifierLists == {<<>>, <<"html", "text">>}

ForceValues == {None, <<>>, <<"1">>}

NoEntry == Entry(Absent, Absent, EmptyConf)
NoPrev == [key |-> None, tag |-> None, outcome |-> "none", new |-> FALSE]

\* an entry of config["notifiers"]: its "type", whether it has a "config"
\* with a "url", and its "format", spelled letter by letter
NotifierConf(t, u, f) == [type |-> t, url |-> u, format |-> f]

\* get_notifier(nc) returns a notifier; otherwise it raises ValueError
\* (type) or KeyError ("config", "url")
get_notifier_ok(nc) == nc.type = "apprise" /\ nc.url

UpperCase == <<"A", "B", "C", "D", "E", "F", "G", "H", "I", "J", "K", "L", "M",
               "N", "O", "P", "Q", "R", "S", "T", "U", "V", "W", "X", "Y", "Z">>
LowerCase == <<"a", "b", "c", "d", "e", "f", "g", "h", "i", "j", "k", "l", "m",
               "n", "o", "p", "q", "r", "s", "t", "u", "v", "w", "x", "y", "z">>

\* str.lower(): every upper-case letter becomes its lower-case letter, any
\* other character stays
lower(f) ==
    [i \in 1..Len(f) |->
        IF \E k \in DOMAIN UpperCase : UpperCase[k] = f[i]
        THEN LowerCase[CHOOSE k \in DOMAIN UpperCase : UpperCase[k] = f[i]]
        ELSE f[i]]

\* the keys of valid_formats, letter by letter, with the NotifyFormat each
\* stands for
valid_formats ==
    {<<<<"t", "e", "x", "t">>, "text">>, <<<<"h", "t", "m", "l">>, "html">>,
     <<<<"m", "a", "r", "k", "d", "o", "w", "n">>, "markdown">>}

\* AppriseNotifier.message_format: the requested format is lower-cased and
\* looked up in valid_formats; an unknown format falls back to text
message_format(nc) ==
    LET requested_format == lower(nc.format)
    IN IF \E v \in valid_formats : v[1] = requested_format
       THEN (CHOOSE v \in valid_formats : v[1] = requested_format)[2]
       ELSE "text"

\* the list run_full_check and check_single_repo work with: the list
\* comprehension assigns only when every get_notifier returned; when one
\* raised, notifiers is still the empty list of the line before the try
get_notifiers(confs) ==
    IF \A i \in 1..Len(confs) : get_notifier_ok(confs[i])
    THEN [i \in 1..Len(confs) |-> message_format(confs[i])]
    ELSE <<>>

\* a configuration whose notifiers are all constructible, each format
\* spelled as valid_formats has it
ConfsFor(ns) ==
    [i \in 1..Len(ns) |->
        NotifierConf("apprise", TRUE, (CHOOSE v \in valid_formats : v[2] = ns[i])[1])]

NotifierConfLists ==
    {<<>>,
     <<NotifierConf("apprise", TRUE, <<"h", "t", "m", "l">>),
       NotifierConf("apprise", TRUE, <<"x", "m", "l">>)>>,
     <<NotifierConf("apprise", TRUE, <<"h", "t", "m", "l">>),
       NotifierConf("slack", TRUE, <<"t", "e", "x", "t">>)>>,
     <<NotifierConf("apprise", FALSE, <<"h", "t", "m", "l">>),
       NotifierConf("apprise", TRUE, <<"t", "e", "x", "t">>)>>,
     <<NotifierConf("apprise", TRUE, <<"h", "T", "M", "L">>),
       NotifierConf("apprise", TRUE, <<"M", "a", "r", "k", "D", "o", "w", "n">>)>>}

\* config["persistence"]: its "type" ("missing": no such key) and whether
\* its "config" holds arguments RedisStore accepts
PersistenceConf(t, c) == [type |-> t, config |-> c]

RedisConf == PersistenceConf("redis", TRUE)

PersistenceConfs ==
    {RedisConf, PersistenceConf("redis", FALSE), PersistenceConf("file", TRUE),
     PersistenceConf("missing", FALSE)}

\* get_backend(p) returns a store; otherwise it raises KeyError,
\* NotImplementedError or what RedisStore(**config) raises
get_backend_ok(p) == p.type = "redis" /\ p.config

(***************************************************************************)
(* RedisStore over one Redis set.  Iterating smembers() visits the members *)
(* in no particular order, so "the first member that matches" is any       *)
(* member that matches.                                                    *)
(***************************************************************************)
Matching(members, repo) == {m \in members : startswith(m, repo \o <<":">>)}

\* RedisStore.get_last_release: the values it can return
get_last_release(members, repo) ==
    IF Matching(members, repo) = {} THEN {None}
    ELSE {split_colon_1(m) : m \in Matching(members, repo)}

\* a variant whose write lands even when a call of it raised
set_last_release_lands(members, repo, tag, how) ==
    {(members \ Matching(members, repo)) \cup {repo \o <<":">> \o tag}}

\* RedisStore.set_last_release: the sets it can leave, by how far it got:
\* "ok" ran to the end; "smembers", "srem", "sadd" raised at that call
set_last_release(members, repo, tag, how) ==
    LET removed == IF Matching(members, repo) = {} THEN {members}
                   ELSE {members \ {m} : m \in Matching(members, repo)}
    IN CASE how = "smembers" -> {members}
         [] how = "srem" -> {members}
         [] how = "sadd" -> removed
         [] OTHER -> {r \cup {repo \o <<":">> \o tag} : r \in removed}

SetOutcomes(members, repo) ==
    {"ok", "smembers", "sadd"} \cup (IF Matching(members, repo) = {} THEN {} ELSE {"srem"})

(***************************************************************************)
(* RepoProcessor                                                           *)
(***************************************************************************)
\* self.key = f"{self.watcher_key}_{self.repo_id}"
Key(e) == e.watcher \o <<"_">> \o e.repo

Call(op, n, f, res) == [op |-> op, n |-> n, f |-> f, res |-> res]

\* a variant that tests the value's truth instead of its presence
force_notify_truthy == forceEnv \notin {None, <<>>}

\* os.getenv("FORCE_NOTIFY") is not None
force_notify == forceEnv # None

\* a variant that deletes the downloaded files before it notifies
StepAfter_cleanup_first(p) ==
    CASE p = "decide" -> "assets"
      [] p = "assets" -> "cleanup"
      [] p = "cleanup" -> "notify"
      [] p = "notify" -> "commit"
      [] OTHER -> "end"

\* a variant that commits before it acts
StepAfter_commit_first(p) ==
    CASE p = "decide" -> "commit"
      [] p = "commit" -> "assets"
      [] p = "assets" -> "notify"
      [] p = "notify" -> "cleanup"
      [] OTHER -> "end"

\* the order of the steps of process() once the release is new or forced:
\* process_assets, notify_all, the cleanup of the finally clause, then
\* _update_persistence
StepAfter(p) ==
    CASE p = "decide" -> "assets"
      [] p = "assets" -> "notify"
      [] p = "notify" -> "cleanup"
      [] p = "cleanup" -> "commit"
      [] OTHER -> "end"

\* a variant that treats every fetched release as new
is_new_always(t, tag) == TRUE

\* what _is_new_release returns for the stored tag t and the fetched tag
is_new(t, tag) == IF t = tag THEN force_notify ELSE TRUE

\* a variant in which the adapter's exception leaves process() and the loop
fetch_failed_uncaught == pc' = "finished" /\ outcome' = "no_release"

\* _fetch_latest_release caught the adapter's exception, or the adapter
\* returned None: process() returns
fetch_failed == pc' = "end" /\ outcome' = "no_release"

\* a variant in which a failed send ends the loop over the notifiers
after_send_break(res) == IF res = "ok" THEN ni + 1 ELSE Len(notifiers)

\* notify_all: the notifiers handled once the send of notifier ni + 1 has
\* returned res or raised
after_send(res) == ni + 1

\* run_full_check: where the run continues after the loop's except clause
after_ctor_error == "loop"

\* run_full_check: the except clause of the loop calls entry.get, which an
\* entry that is no mapping does not have: AttributeError leaves the loop
\* and run_full_check
after_handler_error == "raised"

\* a variant that does not see the entry's override
upload_assets_base_only ==
    Truthy(ConfGet(watchers_conf[entry.watcher].config, "upload_assets",
                   VBool(globalUpload)))

\* merged_conf.get("upload_assets", self.global_upload_assets), as process_assets tests it
upload_assets == Truthy(ConfGet(merged_conf, "upload_assets", VBool(globalUpload)))

\* id() of a new object is the address of no object that is still alive
Ids == 1..nrepos

\* build_watcher: the adapter built, with the configuration it was built from
build_watcher(type, conf) == [type |-> type, conf |-> conf]

EntryReset ==
    /\ entry' = NoEntry
    /\ merged_conf' = EmptyConf
    /\ watcher' = 0
    /\ release' = NoRelease
    /\ last_tag' = None
    /\ attachments' = <<>>
    /\ ai' = 0
    /\ ni' = 0
    /\ calls' = <<>>
    /\ outcome' = "none"

entryVars == <<entry, merged_conf, watcher, release, last_tag, attachments, ai, ni,
               calls, outcome>>

sharedVars == <<redis_set, written, watcher_cache, watchers, uses>>

\* a variant in which leaving process() ends the run
Leave_run(how) == pc' = "finished" /\ outcome' = how

\* process() is left: by return, or through its except clause
Leave(how) == pc' = "end" /\ outcome' = how

NoMaint == [op |-> "none", arg |-> None, before |-> {}, listed |-> {}, count |-> 0]
NoPair == [state |-> "idle", a |-> NoEntry, b |-> NoEntry, ka |-> None, kb |-> None,
           seen |-> None]
VNone == [kind |-> "none", v |-> 0]
NoResolution == [key |-> None, conf |-> EmptyConf, upload |-> FALSE, token |-> VNone]
NoResult == [how |-> "none", tag |-> None, outcome |-> "none", downloads |-> 0,
             sends |-> 0]
NoSingle == [repos |-> <<>>, i |-> 0, repo |-> None, opt |-> None, store |-> {},
             mode |-> "none",
             found |-> None, s |-> NoResolution, rs |-> NoResult]
NoLoader == [state |-> "idle", plan |-> <<>>, attempt |-> 0, waits |-> <<>>,
             errors |-> <<>>, raised |-> "none"]

\* no maintenance call, no pair of entries, no single-repository check and
\* no configuration load
InitAux ==
    /\ maint = NoMaint
    /\ pair = NoPair
    /\ single = NoSingle
    /\ loader = NoLoader

\* no download_asset, build_watcher or store call made on its own
InitUnit ==
    /\ InitAux
    /\ dl = [state |-> "idle", attempt |-> 0, waits |-> <<>>, errors |-> <<>>,
             raised |-> "none"]
    /\ reg = [kind |-> "none", conf |-> EmptyConf, result |-> "none"]
    /\ file_data = [k \in {} |-> None]
    /\ expected = [k \in {} |-> None]
    /\ got = [key |-> None, redis |-> None, file |-> None]

\* the first run, its store built
InitStarted ==
    /\ persistence = RedisConf
    /\ backend = "ok"
    /\ run = 1

\* no entry taken yet, an empty Redis set, an empty cache
InitEntryState ==
    /\ idx = 0
    /\ redis_set = {}
    /\ written = {}
    /\ watcher_cache = [k \in {} |-> 0]
    /\ watchers = <<>>
    /\ uses = {}
    /\ prev = NoPrev
    /\ entry = NoEntry
    /\ merged_conf = EmptyConf
    /\ watcher = 0
    /\ release = NoRelease
    /\ last_tag = None
    /\ attachments = <<>>
    /\ ai = 0
    /\ ni = 0
    /\ calls = <<>>
    /\ store0 = {}
    /\ outcome = "none"

InitShared ==
    /\ pc = "loop"
    /\ InitUnit
    /\ InitStarted
    /\ InitEntryState

Init ==
    /\ InitShared
    /\ nrepos \in 0..MaxEntries
    /\ forceEnv \in ForceValues
    /\ envV = "unset"
    /\ globalUpload \in BOOLEAN
    /\ notifiers \in NotifierLists
    /\ notifier_confs = ConfsFor(notifiers)

\* run_full_check: the for loop takes the next entry and constructs its
\* RepoProcessor; a KeyError of the constructor is caught by the loop; for
\* an entry that is no mapping the constructor raises TypeError and the
\* except clause raises in its turn
NextEntry(entries) ==
    /\ pc = "loop"
    /\ idx < nrepos
    /\ idx' = idx + 1
    /\ store0' = redis_set
    /\ \E e \in entries :
        IF e = ScalarEntry
        THEN /\ pc' = after_handler_error
             /\ prev' = [key |-> None, tag |-> None, outcome |-> "handler_error",
                          new |-> FALSE]
             /\ UNCHANGED entryVars
        ELSE IF e.repo = Absent \/ e.watcher = Absent
        THEN /\ pc' = after_ctor_error
             /\ prev' = [key |-> None, tag |-> None, outcome |-> "ctor_error",
                          new |-> FALSE]
             /\ UNCHANGED entryVars
        ELSE /\ pc' = "resolve"
             /\ entry' = e
             /\ UNCHANGED <<prev, merged_conf, watcher, release, last_tag,
                            attachments, ai, ni, calls, outcome>>
    /\ UNCHANGED <<runVars, startVars, unitVars, sharedVars>>

\* run_full_check: the loop is over
Finish ==
    /\ pc = "loop"
    /\ idx = nrepos
    /\ pc' = "finished"
    /\ UNCHANGED <<idx, runVars, startVars, unitVars, sharedVars, prev, entryVars, store0>>

\* RepoProcessor._get_watcher
get_watcher ==
    /\ pc = "resolve"
    /\ IF entry.watcher \notin DOMAIN watchers_conf
       THEN /\ Leave("error")
            /\ UNCHANGED <<merged_conf, watcher, watcher_cache, watchers, uses>>
       ELSE LET base_conf == watchers_conf[entry.watcher]
                conf == resolve_env_placeholders_recursive(
                            MergeConf(base_conf.config, entry.config), envV)
                keys == IF Hashable(conf) THEN {HashKey(entry.watcher, conf)}
                        ELSE {IdKey(entry.watcher, n) : n \in Ids}
            IN /\ merged_conf' = conf
               /\ \E cache_key \in keys :
                    IF cache_key \in DOMAIN watcher_cache
                    THEN /\ watcher' = watcher_cache[cache_key]
                         /\ uses' = uses \cup {[wk |-> entry.watcher, conf |-> conf,
                                                inst |-> watcher_cache[cache_key],
                                                fresh |-> FALSE]}
                         /\ pc' = "fetch"
                         /\ UNCHANGED <<watcher_cache, watchers, outcome>>
                    ELSE IF ~CanBuild(base_conf.type)
                    THEN /\ Leave("error")
                         /\ UNCHANGED <<watcher, watcher_cache, watchers, uses>>
                    ELSE /\ watchers' = Append(watchers, build_watcher(base_conf.type, conf))
                         /\ watcher_cache' =
                              [k \in DOMAIN watcher_cache \cup {cache_key} |->
                                  IF k = cache_key THEN Len(watchers) + 1
                                  ELSE watcher_cache[k]]
                         /\ watcher' = Len(watchers) + 1
                         /\ uses' = uses \cup {[wk |-> entry.watcher, conf |-> conf,
                                                inst |-> Len(watchers) + 1,
                                                fresh |-> TRUE]}
                         /\ pc' = "fetch"
                         /\ UNCHANGED outcome
    /\ UNCHANGED <<idx, runVars, startVars, unitVars, redis_set, written, prev, entry, release, last_tag,
                   attachments, ai, ni, calls, store0>>

\* RepoProcessor._fetch_latest_release, and process() returning when it
\* yields no release (the adapter raised, or returned None)
fetch_latest_release(rels) ==
    /\ pc = "fetch"
    /\ \/ /\ fetch_failed
          /\ UNCHANGED release
       \/ \E r \in rels :
             /\ release' = r
             /\ pc' = "decide"
             /\ UNCHANGED outcome
    /\ UNCHANGED <<idx, runVars, startVars, unitVars, sharedVars, prev, entry, merged_conf, watcher,
                   last_tag, attachments, ai, ni, calls, store0>>

\* RepoProcessor._is_new_release, and process() returning when it is False
is_new_release ==
    /\ pc = "decide"
    /\ \/ /\ calls' = Append(calls, Call("get", 0, Key(entry), "raise"))
          /\ Leave("error")
          /\ UNCHANGED last_tag
       \/ \E t \in get_last_release(redis_set, Key(entry)) :
             /\ calls' = Append(calls, Call("get", 0, Key(entry), "ok"))
             /\ last_tag' = t
             /\ IF is_new(t, release.tag)
                THEN pc' = StepAfter("decide") /\ UNCHANGED outcome
                ELSE Leave("up_to_date")
    /\ UNCHANGED <<idx, runVars, startVars, unitVars, sharedVars, prev, entry, merged_conf, watcher,
                   release, attachments, ai, ni, store0>>

\* download_asset as process_assets sees it: "ok" wrote the file; "fail"
\* raised before the file was opened; "partial" raised while the body was
\* being written, after open(dest, "wb") had created the file
DownloadOutcomes == {"ok", "fail", "partial"}

\* a variant in which a failed download ends the loop
after_download_break(res) == IF res = "ok" THEN ai + 1 ELSE Len(release.assets)

\* process_assets: the except clause is inside the for loop, so the loop
\* goes on to the next asset whatever download_asset did
after_download(res) == ai + 1

\* process_assets: one turn of the loop over release.assets
download_step ==
    /\ pc = "assets"
    /\ upload_assets
    /\ ai < Len(release.assets)
    /\ \E res \in DownloadOutcomes :
        LET name == release.assets[ai + 1]
        IN /\ ai' = after_download(res)
           /\ calls' = Append(calls, Call("download", ai + 1, <<name>>, res))
           /\ written' = IF res = "fail" THEN written ELSE written \cup {name}
           /\ attachments' = IF res = "ok" THEN Append(attachments, name) ELSE attachments
    /\ UNCHANGED <<pc, idx, runVars, startVars, unitVars, redis_set, watcher_cache, watchers, uses,
                   prev, entry, merged_conf, watcher, release, last_tag, ni, store0,
                   outcome>>

\* process_assets returns: at once when upload_assets is false, else after
\* the last asset
process_assets ==
    /\ pc = "assets"
    /\ ~upload_assets \/ ai = Len(release.assets)
    /\ pc' = StepAfter("assets")
    /\ UNCHANGED <<idx, runVars, startVars, unitVars, sharedVars, prev, entryVars, store0>>

\* the lines of one asset, by format; download_url(a) stands for the
\* asset's download_url
AssetLine(fmt, a) ==
    CASE fmt = "markdown" -> <<"- [", a, "](", <<"download_url", a>>, ")">>
      [] fmt = "html" -> <<"<li><a href='", <<"download_url", a>>, "'>", a, "</a></li>">>
      [] OTHER -> <<"- ", a, ": ", <<"download_url", a>>>>

\* render_message: the lines of the body that "\n".join puts together, or
\* ValueError for a format that is none of the three; "(backtick)" stands
\* for the grave accent of the markdown text, "(rocket)" for the rocket
\* sign U+1F680 that opens the markdown and html bodies, the footers for
\* their texts
render_message(repo_id, rel, fmt) ==
    LET linked == rel.source_url # None /\ rel.source_url # <<>>
        assets == [i \in 1..Len(rel.assets) |-> AssetLine(fmt, rel.assets[i])]
        display_md == IF linked THEN <<"[", repo_id, "](", rel.source_url, ")">>
                      ELSE <<"(backtick)", repo_id, "(backtick)">>
        display_html == IF linked
                        THEN <<"<a href='", rel.source_url, "'>", repo_id, "</a>">>
                        ELSE <<"<code>", repo_id, "</code>">>
        display_text == IF linked THEN <<repo_id, " (", rel.source_url, ")">>
                        ELSE <<repo_id>>
        head_md == <<"(rocket) **New Release** for ", display_md, ": (backtick)", rel.tag, "(backtick)">>
        head_html == <<"<p>(rocket) <strong>New Release</strong> for ", display_html,
                       ": <code>", rel.tag, "</code></p>">>
        head_text == <<"New Release for ", display_text, ": ", rel.tag>>
    IN CASE fmt = "markdown" ->
              <<head_md, <<"**Assets:**">> >> \o assets \o << <<"footer_md">> >>
         [] fmt = "html" ->
              <<head_html, <<"<p><strong>Assets:</strong></p><ul>">> >> \o assets
                  \o << <<"</ul>">>, <<"footer_html">> >>
         [] fmt = "text" ->
              <<head_text, <<"Assets:">> >> \o assets \o << <<"footer_text">> >>
         [] OTHER -> <<"ValueError">>

\* a variant that renders every body as text
render_format_text(n) == "text"

\* getattr(notifier, "message_format", "text")
render_format(n) == notifiers[n]

\* notifier.send(title=..., body=..., attachments=...): the call and how it ended
SendCall(n, res) ==
    [op |-> "send", n |-> n, f |-> <<notifiers[n]>>, res |-> res,
     title |-> <<"New Release: ", entry.repo>>,
     body |-> render_message(entry.repo, release, render_format(n)),
     attachments |-> attachments]

\* one turn of the loop: send returned True ("ok"), returned False
\* ("false"), or render_message or send raised ("raise"); the except clause
\* of the turn covers both
SendOutcomes == {"ok", "false", "raise"}

\* notify_all: one turn of the loop over the notifiers
send_step ==
    /\ pc = "notify"
    /\ ni < Len(notifiers)
    /\ \E res \in SendOutcomes :
          /\ calls' = Append(calls, SendCall(ni + 1, res))
          /\ ni' = after_send(res)
    /\ UNCHANGED <<pc, idx, runVars, startVars, unitVars, sharedVars, prev, entry, merged_conf, watcher,
                   release, last_tag, attachments, ai, store0, outcome>>

\* notify_all returns: at once when there are no notifiers, else after the last
notify_all ==
    /\ pc = "notify"
    /\ ni = Len(notifiers)
    /\ pc' = StepAfter("notify")
    /\ UNCHANGED <<idx, runVars, startVars, unitVars, sharedVars, prev, entryVars, store0>>

\* the files the first n turns of the cleanup loop removed, res[j] being
\* how the unlink of attachment j ends when it is called: "ok" removed the
\* file, "raise" is an unlink that raised, after which the except clause of
\* the turn leaves the file where it is
RECURSIVE Unlinked(_, _)
Unlinked(n, res) ==
    IF n = 0 THEN {}
    ELSE IF attachments[n] \in written /\ res[n] = "ok"
         THEN Unlinked(n - 1, res) \cup {attachments[n]}
         ELSE Unlinked(n - 1, res)

\* the unlink calls of the cleanup loop: an attachment that no longer
\* exists (a name that occurs twice, once its file is removed) is skipped
RECURSIVE UnlinkCalls(_, _)
UnlinkCalls(n, res) ==
    IF n = 0 THEN <<>>
    ELSE IF attachments[n] \in written \ Unlinked(n - 1, res)
         THEN Append(UnlinkCalls(n - 1, res),
                     Call("unlink", n, <<attachments[n]>>, res[n]))
         ELSE UnlinkCalls(n - 1, res)

\* RepoProcessor._process_and_notify: the finally clause, one turn per
\* attachment, each turn with its own try
cleanup ==
    /\ pc = "cleanup"
    /\ \E res \in [1..Len(attachments) -> {"ok", "raise"}] :
          /\ written' = written \ Unlinked(Len(attachments), res)
          /\ calls' = calls \o UnlinkCalls(Len(attachments), res)
    /\ pc' = StepAfter("cleanup")
    /\ UNCHANGED <<idx, runVars, startVars, unitVars, redis_set, watcher_cache, watchers, uses,
                   prev, entry, merged_conf, watcher, release, last_tag, attachments,
                   ai, ni, store0, outcome>>

\* RepoProcessor._update_persistence
update_persistence ==
    /\ pc = "commit"
    /\ \E how \in SetOutcomes(redis_set, Key(entry)) :
          /\ redis_set' \in set_last_release(redis_set, Key(entry), release.tag, how)
          /\ calls' = Append(calls, Call("set", 0, release.tag, how))
          /\ pc' = StepAfter("commit")
          /\ outcome' = IF how = "ok" THEN "processed" ELSE "commit_failed"
    /\ UNCHANGED <<idx, runVars, startVars, unitVars, written, watcher_cache, watchers, uses,
                   prev, entry, merged_conf, watcher, release, last_tag, attachments,
                   ai, ni, store0>>

\* process() is over (its finally clause) and run_full_check loops
process_return ==
    /\ pc = "end"
    /\ pc' = "loop"
    /\ prev' = IF outcome \in {"processed", "up_to_date", "commit_failed"}
                THEN [key |-> Key(entry), tag |-> release.tag, outcome |-> outcome,
                      new |-> last_tag # release.tag]
                ELSE [key |-> None, tag |-> None, outcome |-> outcome, new |-> FALSE]
    /\ EntryReset
    /\ written' = {}
    /\ store0' = redis_set
    /\ UNCHANGED <<idx, runVars, startVars, unitVars, redis_set, watcher_cache, watchers, uses>>

Next ==
    \/ NextEntry(PipelineEntries)
    \/ Finish
    \/ get_watcher
    \/ fetch_latest_release(Releases)
    \/ is_new_release
    \/ download_step
    \/ process_assets
    \/ send_step
    \/ notify_all
    \/ cleanup
    \/ update_persistence
    \/ process_return

Spec == Init /\ [][Next]_vars

\* a run with FORCE_NOTIFY unset, asset upload on and two notifiers
InitFair ==
    /\ InitShared
    /\ nrepos \in 0..MaxEntries
    /\ forceEnv = None
    /\ envV = "unset"
    /\ globalUpload = TRUE
    /\ notifiers = <<"html", "text">>
    /\ notifier_confs = ConfsFor(notifiers)

\* the run is one sequential thread: a step that can be taken is taken
FairSpec == InitFair /\ [][Next]_vars /\ WF_vars(Next)

(***************************************************************************)
(* The adapter cache on its own: a run whose fetches yield no release,     *)
(* over entries whose configurations exercise the cache key.               *)
(***************************************************************************)
InitCache ==
    /\ InitShared
    /\ nrepos \in 0..MaxCacheEntries
    /\ forceEnv = None
    /\ envV \in {"unset", "set"}
    /\ globalUpload = FALSE
    /\ notifiers = <<>>
    /\ notifier_confs = ConfsFor(notifiers)

NextCache ==
    \/ NextEntry(CacheEntries)
    \/ Finish
    \/ get_watcher
    \/ fetch_latest_release({})
    \/ process_return

CacheSpec == InitCache /\ [][NextCache]_vars

(***************************************************************************)
(* Start-up of a run and runs in succession: the program is started again  *)
(* over the same configuration and the same Redis set, with whatever       *)
(* FORCE_NOTIFY the new process finds in its environment.                  *)
(***************************************************************************)
\* entries of config["repos"] for the runs in succession
RunEntries == {Entry(<<"g">>, <<"w">>, EmptyConf)}

\* a variant that goes on without a store
after_backend_error_ignored == "init_notifiers"

\* run_full_check: where the run continues after get_backend raised (return)
after_backend_error == "finished"

\* run_full_check: backend = get_backend(config.get("persistence", {}))
get_backend ==
    /\ pc = "start"
    /\ IF get_backend_ok(persistence)
       THEN backend' = "ok" /\ pc' = "init_notifiers"
       ELSE backend' = "failed" /\ pc' = after_backend_error
    /\ UNCHANGED <<idx, runVars, persistence, notifier_confs, run, unitVars,
                   sharedVars, prev, entryVars, store0>>

\* run_full_check: the notifiers are initialised, then the cache and the
\* global upload flag are set up
init_notifiers ==
    /\ pc = "init_notifiers"
    /\ notifiers' = get_notifiers(notifier_confs)
    /\ pc' = "loop"
    /\ UNCHANGED <<idx, nrepos, forceEnv, envV, globalUpload, startVars, unitVars,
                   sharedVars, prev, entryVars, store0>>

\* the program is started again: a new process, the same configuration,
\* the same Redis set
NewRun ==
    /\ pc \in {"finished", "raised"}
    /\ run < MaxRuns
    /\ run' = run + 1
    /\ pc' = "start"
    /\ forceEnv' \in ForceValues
    /\ backend' = "none"
    /\ notifiers' = <<>>
    /\ idx' = 0
    /\ watcher_cache' = [k \in {} |-> 0]
    /\ watchers' = <<>>
    /\ uses' = {}
    /\ store0' = redis_set
    /\ UNCHANGED <<nrepos, envV, globalUpload, persistence, notifier_confs, unitVars,
                   redis_set, written, prev, entryVars>>

InitRuns ==
    /\ pc = "start"
    /\ InitUnit
    /\ run = 1
    /\ backend = "none"
    /\ persistence \in PersistenceConfs
    /\ notifier_confs \in NotifierConfLists
    /\ notifiers = <<>>
    /\ nrepos \in 0..MaxEntries
    /\ forceEnv \in ForceValues
    /\ envV = "unset"
    /\ globalUpload = TRUE
    /\ InitEntryState

NextRuns ==
    \/ get_backend
    \/ init_notifiers
    \/ NextEntry(RunEntries)
    \/ Finish
    \/ get_watcher
    \/ fetch_latest_release(Releases)
    \/ is_new_release
    \/ download_step
    \/ process_assets
    \/ send_step
    \/ notify_all
    \/ cleanup
    \/ update_persistence
    \/ process_return
    \/ NewRun

RunsSpec == InitRuns /\ [][NextRuns]_vars

(***************************************************************************)
(* download_asset on its own: the function body under tenacity's retry     *)
(* decorator (stop_after_attempt, wait_exponential,                        *)
(* retry_if_exception_type(requests.RequestException), reraise).           *)
(***************************************************************************)
MaxAttempts == 5
WaitMultiplier == 1
WaitMin == 2
WaitMax == 10

\* how one attempt ends: it returns ("ok"); requests.get raises a
\* connection error or a timeout ("transport"); raise_for_status raises
\* HTTPError for a 4xx or 5xx response ("http"); iter_content raises while
\* the body is written ("stream"); opening dest raises OSError ("os")
AttemptOutcomes == {"ok", "transport", "http", "stream", "os"}

\* retry_if_exception_type(requests.RequestException): HTTPError and the
\* connection, timeout and streaming errors are all RequestException
Retryable(o) == o \in {"transport", "http", "stream"}

RECURSIVE Pow2(_)
Pow2(n) == IF n = 0 THEN 1 ELSE 2 * Pow2(n - 1)

Min(a, b) == IF a < b THEN a ELSE b
Max(a, b) == IF a > b THEN a ELSE b

\* a variant whose exponent is the attempt number
wait_exponential_from_two(n) ==
    Max(Max(0, WaitMin), Min(WaitMultiplier * Pow2(n), WaitMax))

\* wait_exponential(multiplier, min, max) after the failed attempt number n:
\* max(max(0, min), min(multiplier * 2 ** (n - 1), max))
wait_exponential(n) ==
    Max(Max(0, WaitMin), Min(WaitMultiplier * Pow2(n - 1), WaitMax))

\* a variant without reraise
raised_error_wrapped(errors) == "RetryError"

\* reraise=True: the exception of the last attempt leaves download_asset
raised_error(errors) == errors[Len(errors)]

\* one attempt: the body of download_asset runs, and the decorator decides
download_attempt ==
    /\ pc = "download_asset"
    /\ dl.state = "trying"
    /\ \E o \in AttemptOutcomes :
         LET errs == Append(dl.errors, o)
             n == dl.attempt + 1
         IN dl' = [dl EXCEPT
                     !.attempt = n,
                     !.errors = errs,
                     !.state = IF o = "ok" THEN "returned"
                               ELSE IF Retryable(o) /\ n < MaxAttempts THEN "waiting"
                               ELSE "raised",
                     !.raised = IF o # "ok" /\ ~(Retryable(o) /\ n < MaxAttempts)
                                THEN raised_error(errs) ELSE "none"]
    /\ UNCHANGED <<pc, idx, runVars, startVars, reg, file_data, expected, got, auxVars,
                   sharedVars, prev, entryVars, store0>>

\* the sleep between two attempts
download_wait ==
    /\ pc = "download_asset"
    /\ dl.state = "waiting"
    /\ dl' = [dl EXCEPT !.waits = Append(dl.waits, wait_exponential(dl.attempt)),
                        !.state = "trying"]
    /\ UNCHANGED <<pc, idx, runVars, startVars, reg, file_data, expected, got, auxVars,
                   sharedVars, prev, entryVars, store0>>

\* no run: the pipeline variables stay at their initial values
InitQuiet ==
    /\ InitStarted
    /\ InitEntryState
    /\ nrepos = 0
    /\ forceEnv = None
    /\ envV = "unset"
    /\ globalUpload = FALSE
    /\ notifiers = <<>>
    /\ notifier_confs = <<>>

InitDownload ==
    /\ pc = "download_asset"
    /\ InitQuiet
    /\ InitAux
    /\ dl = [state |-> "trying", attempt |-> 0, waits |-> <<>>, errors |-> <<>>,
             raised |-> "none"]
    /\ reg = [kind |-> "none", conf |-> EmptyConf, result |-> "none"]
    /\ file_data = [k \in {} |-> None]
    /\ expected = [k \in {} |-> None]
    /\ got = [key |-> None, redis |-> None, file |-> None]

NextDownload == download_attempt \/ download_wait

\* the call runs in one thread: an attempt or a sleep that is due happens
DownloadSpec == InitDownload /\ [][NextDownload]_vars /\ WF_vars(NextDownload)

(***************************************************************************)
(* build_watcher on its own: a caller imports it from utils and calls it   *)
(* with a watcher type and a configuration.                                *)
(***************************************************************************)

\* the classes the modules of src/watcher define
WatcherClasses ==
    {"APKMirrorWatcher", "APKPureWatcher", "DockerHubWatcher", "FdroidWatcher",
     "GitHubWatcher", "GitLabWatcher", "HomebrewWatcher", "MavenCentralWatcher",
     "NPMWatcher", "PyPIWatcher", "WordPressPluginWatcher", "WordPressThemeWatcher"}

\* the adapter classes utils imports by name when it is loaded
UtilsImports ==
    {"APKMirrorWatcher", "APKPureWatcher", "DockerHubWatcher", "FdroidWatcher",
     "GitHubWatcher", "GitLabWatcher", "HomebrewWatcher", "MavenCentralWatcher",
     "NPMWatcher", "PyPIWatcher", "WordPressWatcher"}

\* "from utils import build_watcher" succeeds: every name utils imports
\* from a watcher module is defined there
import_utils_ok == UtilsImports \subseteq WatcherClasses

\* the watcher types a caller may pass: the registered ones and two others
WatcherKinds == SupportedTypes \cup {"svn", "wordpress-theme"}

\* importing build_watcher and calling it: ImportError when utils cannot be
\* loaded, NotImplementedError for a type without a branch, NameError when
\* the branch calls a name that is not defined, TypeError when it calls a
\* class with an abstract method, else an adapter
call_build_watcher(kind, conf) ==
    IF ~import_utils_ok THEN "ImportError"
    ELSE IF kind \notin SupportedTypes THEN "NotImplementedError"
    ELSE IF kind \in UndefinedTypes THEN "NameError"
    ELSE IF kind \in AbstractTypes THEN "TypeError"
    ELSE "adapter"

registry_call ==
    /\ pc = "build_watcher"
    /\ reg.result = "none"
    /\ reg' = [reg EXCEPT !.result = call_build_watcher(reg.kind, reg.conf)]
    /\ UNCHANGED <<pc, idx, runVars, startVars, dl, file_data, expected, got, auxVars,
                   sharedVars, prev, entryVars, store0>>

InitRegistry ==
    /\ pc = "build_watcher"
    /\ InitQuiet
    /\ InitAux
    /\ dl = [state |-> "idle", attempt |-> 0, waits |-> <<>>, errors |-> <<>>,
             raised |-> "none"]
    /\ \E k \in WatcherKinds, c \in CacheConfs :
          reg = [kind |-> k, conf |-> c, result |-> "none"]
    /\ file_data = [k \in {} |-> None]
    /\ expected = [k \in {} |-> None]
    /\ got = [key |-> None, redis |-> None, file |-> None]

NextRegistry == registry_call

RegistrySpec == InitRegistry /\ [][NextRegistry]_vars

(***************************************************************************)
(* The state stores on their own: a FileBackend and a RedisStore receive   *)
(* the same successful set_last_release calls and are read back.           *)
(***************************************************************************)

\* keys and tags a caller may pass, with and without ":"
StoreKeys == {<<"g">>, <<"g", ":", "a">>, <<"h">>}
StoreTags == {<<"1">>, <<"2">>, <<"a", ":", "1">>}

\* FileBackend.get_last_release: self.data.get(repo)
file_get_last_release(data, repo) == IF repo \in DOMAIN data THEN data[repo] ELSE None

\* FileBackend.set_last_release: self.data[repo] = tag, then the dict is
\* dumped to the file (string keys and values are written as they are)
file_set_last_release(data, repo, tag) ==
    [k \in DOMAIN data \cup {repo} |-> IF k = repo THEN tag ELSE data[k]]

\* set_last_release(key, tag) returns on both stores
store_set ==
    /\ pc = "store"
    /\ \E k \in StoreKeys, t \in StoreTags :
          /\ redis_set' \in set_last_release(redis_set, k, t, "ok")
          /\ file_data' = file_set_last_release(file_data, k, t)
          /\ expected' = [j \in DOMAIN expected \cup {k} |->
                              IF j = k THEN t ELSE expected[j]]
    /\ got' = [key |-> None, redis |-> None, file |-> None]
    /\ UNCHANGED <<pc, idx, runVars, startVars, dl, reg, auxVars, written, watcher_cache,
                   watchers, uses, prev, entryVars, store0>>

\* get_last_release(key) on both stores
store_get ==
    /\ pc = "store"
    /\ \E k \in StoreKeys :
          /\ \E v \in get_last_release(redis_set, k) :
                got' = [key |-> k, redis |-> v,
                        file |-> file_get_last_release(file_data, k)]
    /\ UNCHANGED <<pc, idx, runVars, startVars, dl, reg, file_data, expected, auxVars,
                   sharedVars, prev, entryVars, store0>>

InitStore ==
    /\ pc = "store"
    /\ InitQuiet
    /\ InitUnit

NextStore == store_set \/ store_get

StoreSpec == InitStore /\ [][NextStore]_vars

(***************************************************************************)
(* The maintenance operations of RedisStore, called one at a time on a     *)
(* store that set_last_release calls have filled.                          *)
(***************************************************************************)

\* self.prefix, the name of the Redis set: the constructor's default
SetName == <<"release-tracker">>

\* prefix filters a caller may pass: none, the empty string, the start of
\* a key, a key with its ":", and the name of the set
MaintPrefixes == {None, <<>>, <<"g">>, <<"h">>, <<"g", ":">>, SetName}

\* member.startswith((f"{prefix}:", prefix))
MatchesPrefix(m, p) == startswith(m, p \o <<":">>) \/ startswith(m, p)

\* RedisStore.get_all_keys_with_prefix: the members it returns
get_all_keys_with_prefix(members, p) ==
    IF p = None THEN members ELSE {m \in members : MatchesPrefix(m, p)}

\* RedisStore.delete_all_keys_with_prefix: the set it leaves and the count
\* it returns; without a prefix, or with the name of the set, it deletes
\* the whole set
delete_all_keys_with_prefix(members, p) ==
    IF p = None \/ p = SetName
    THEN [left |-> {}, count |-> Cardinality(members)]
    ELSE LET del == {m \in members : MatchesPrefix(m, p)}
         IN [left |-> members \ del, count |-> Cardinality(del)]

\* RedisStore.remove_repository: the sets it can leave
remove_repository(members, repo) ==
    IF Matching(members, repo) = {} THEN {members}
    ELSE {members \ {m} : m \in Matching(members, repo)}

\* the keys of e whose member is still in the set
StillStored(e, members) ==
    [k \in {j \in DOMAIN e : j \o <<":">> \o e[j] \in members} |-> e[k]]

\* set_last_release(key, tag) returns
maint_set ==
    /\ pc = "maintenance"
    /\ \E k \in StoreKeys, t \in StoreTags :
          /\ redis_set' \in set_last_release(redis_set, k, t, "ok")
          /\ expected' = [j \in DOMAIN expected \cup {k} |->
                              IF j = k THEN t ELSE expected[j]]
          /\ maint' = [NoMaint EXCEPT !.op = "set", !.arg = k, !.before = redis_set]
    /\ UNCHANGED <<pc, idx, runVars, startVars, dl, reg, file_data, got, pair, single,
                   loader, written, watcher_cache, watchers, uses, prev, entryVars,
                   store0>>

\* remove_repository(key) returns
maint_remove ==
    /\ pc = "maintenance"
    /\ \E k \in StoreKeys :
          /\ redis_set' \in remove_repository(redis_set, k)
          /\ expected' = [j \in DOMAIN expected \ {k} |-> expected[j]]
          /\ maint' = [NoMaint EXCEPT !.op = "remove", !.arg = k, !.before = redis_set]
    /\ UNCHANGED <<pc, idx, runVars, startVars, dl, reg, file_data, got, pair, single,
                   loader, written, watcher_cache, watchers, uses, prev, entryVars,
                   store0>>

\* get_all_keys_with_prefix(p) returns
maint_list ==
    /\ pc = "maintenance"
    /\ \E p \in MaintPrefixes :
          maint' = [NoMaint EXCEPT !.op = "list", !.arg = p, !.before = redis_set,
                                   !.listed = get_all_keys_with_prefix(redis_set, p)]
    /\ UNCHANGED <<pc, idx, runVars, startVars, dl, reg, file_data, expected, got,
                   pair, single, loader, sharedVars, prev, entryVars, store0>>

\* delete_all_keys_with_prefix(p) returns; listed is what
\* get_all_keys_with_prefix(p) returns just before it
maint_delete ==
    /\ pc = "maintenance"
    /\ \E p \in MaintPrefixes :
          LET d == delete_all_keys_with_prefix(redis_set, p)
          IN /\ redis_set' = d.left
             /\ expected' = StillStored(expected, d.left)
             /\ maint' = [op |-> "delete", arg |-> p, before |-> redis_set,
                          listed |-> get_all_keys_with_prefix(redis_set, p),
                          count |-> d.count]
    /\ UNCHANGED <<pc, idx, runVars, startVars, dl, reg, file_data, got, pair, single,
                   loader, written, watcher_cache, watchers, uses, prev, entryVars,
                   store0>>

InitMaint ==
    /\ pc = "maintenance"
    /\ InitQuiet
    /\ InitUnit

NextMaint == maint_set \/ maint_remove \/ maint_list \/ maint_delete

MaintSpec == InitMaint /\ [][NextMaint]_vars

(***************************************************************************)
(* Two entries of config["repos"] over one store: the persistence keys     *)
(* their RepoProcessors get, the first entry committing a tag, the second  *)
(* reading its own.                                                        *)
(***************************************************************************)

\* adapter keys and repository ids, with and without "_"
PairWatchers == {<<"w">>, <<"w", "_", "g">>, <<"a">>}
PairRepos == {<<"g">>, <<"h">>, <<"g", "_", "h">>, <<"g", ":", "h">>}
PairEntries == {Entry(r, w, EmptyConf) : r \in PairRepos, w \in PairWatchers}

\* RepoProcessor.__init__ of both entries
pair_keys ==
    /\ pc = "keys"
    /\ pair.state = "entries"
    /\ pair' = [pair EXCEPT !.state = "keyed", !.ka = Key(pair.a), !.kb = Key(pair.b)]
    /\ UNCHANGED <<pc, idx, runVars, startVars, dl, reg, file_data, expected, got,
                   maint, single, loader, sharedVars, prev, entryVars, store0>>

\* the first entry is processed and its tag committed
pair_commit ==
    /\ pc = "keys"
    /\ pair.state = "keyed"
    /\ redis_set' \in set_last_release(redis_set, pair.ka, <<"1">>, "ok")
    /\ pair' = [pair EXCEPT !.state = "committed"]
    /\ UNCHANGED <<pc, idx, runVars, startVars, dl, reg, file_data, expected, got,
                   maint, single, loader, written, watcher_cache, watchers, uses, prev,
                   entryVars, store0>>

\* the second entry reads its last tag
pair_read ==
    /\ pc = "keys"
    /\ pair.state = "committed"
    /\ \E t \in get_last_release(redis_set, pair.kb) :
          pair' = [pair EXCEPT !.state = "read", !.seen = t]
    /\ UNCHANGED <<pc, idx, runVars, startVars, dl, reg, file_data, expected, got,
                   maint, single, loader, sharedVars, prev, entryVars, store0>>

InitKeys ==
    /\ pc = "keys"
    /\ InitQuiet
    /\ dl = [state |-> "idle", attempt |-> 0, waits |-> <<>>, errors |-> <<>>,
             raised |-> "none"]
    /\ reg = [kind |-> "none", conf |-> EmptyConf, result |-> "none"]
    /\ file_data = [k \in {} |-> None]
    /\ expected = [k \in {} |-> None]
    /\ got = [key |-> None, redis |-> None, file |-> None]
    /\ maint = NoMaint
    /\ single = NoSingle
    /\ loader = NoLoader
    /\ \E a \in PairEntries, b \in PairEntries :
          pair = [NoPair EXCEPT !.state = "entries", !.a = a, !.b = b]

NextKeys == pair_keys \/ pair_commit \/ pair_read

KeySpec == InitKeys /\ [][NextKeys]_vars

(***************************************************************************)
(* The two modes of main over one configuration and one store: main with   *)
(* --repo (find_repo_watcher_in_config, check_single_repo), and then main  *)
(* without options (run_full_check) on the store as it was before the      *)
(* single-repository call.                                                 *)
(***************************************************************************)

\* entries of config["repos"]: repository g under two watchers, with and
\* without an override of upload_assets or token, g without a "watcher"
\* and with an empty one, another repository, and an entry that is no
\* mapping
SingleEntries ==
    {Entry(<<"g">>, <<"w">>, EmptyConf), Entry(<<"g">>, <<"a">>, EmptyConf),
     Entry(<<"g">>, <<"a">>, Conf1("upload_assets", VBool(FALSE))),
     Entry(<<"g">>, <<"w">>, Conf1("token", VStr(1))),
     Entry(<<"g">>, Absent, EmptyConf), Entry(<<"g">>, <<>>, EmptyConf),
     Entry(<<"h">>, <<"w">>, EmptyConf), ScalarEntry}

\* config["repos"]: one or two entries
SingleRepoLists ==
    {<<e>> : e \in SingleEntries} \cup {<<e1, e2>> : e1 \in SingleEntries, e2 \in SingleEntries}

\* what the adapters return in the two modes: one release with one asset
SingleReleases == {[tag |-> <<"2">>, assets |-> <<"f1">>, source_url |-> None]}

\* the Redis set before the calls: empty, or holding the tag of that release
\* for repository g under watcher w
SingleStores == {{}, {<<"w", "_", "g", ":", "2">>}}

\* the constructor of RepoProcessor raised KeyError: no key, no configuration
CtorError == [NoResolution EXCEPT !.key = Absent]

\* what a RepoProcessor built from entry e works with: its persistence key
\* and, once _get_watcher has merged and resolved it, its configuration,
\* with the upload_assets and the token _process_and_notify reads from it;
\* for an entry without "repo" or "watcher" the constructor raises, and
\* for a watcher that config["watchers"] does not have _get_watcher raises
\* before there is a configuration
Resolution(e) ==
    IF e.repo = Absent \/ e.watcher = Absent THEN CtorError
    ELSE IF e.watcher \notin DOMAIN watchers_conf
    THEN [NoResolution EXCEPT !.key = Key(e)]
    ELSE LET conf == resolve_env_placeholders_recursive(
                         MergeConf(watchers_conf[e.watcher].config, e.config), envV)
         IN [key |-> Key(e),
             conf |-> conf,
             upload |-> Truthy(ConfGet(conf, "upload_assets", VBool(globalUpload))),
             token |-> ConfGet(conf, "token", VNone)]

\* repo_entry.get("watcher"): None for an entry without the key
get_watcher_key(e) == IF e.watcher = Absent THEN None ELSE e.watcher

\* a variant that returns the watcher of the last entry of the repository
find_repo_watcher_last(repo, repos) ==
    LET hits == {j \in 1..Len(repos) : repos[j].repo = repo}
    IN IF hits = {} THEN None
       ELSE get_watcher_key(repos[CHOOSE j \in hits : \A k \in hits : k <= j])

\* find_repo_watcher_in_config: the loop stops at the first entry that is
\* no mapping (repo_entry.get raises AttributeError) or whose repo is the
\* identifier (its "watcher", None when it has none); None when it stops
\* at no entry
find_repo_watcher_in_config(repo, repos) ==
    LET stops == {j \in 1..Len(repos) : repos[j] = ScalarEntry \/ repos[j].repo = repo}
        first == CHOOSE j \in stops : \A k \in stops : j <= k
    IN IF stops = {} THEN None
       ELSE IF repos[first] = ScalarEntry THEN <<"AttributeError">>
       ELSE get_watcher_key(repos[first])

\* the repository main is called with
SingleRepo == single.repo

\* bool(x) of an option or of a looked-up watcher: None and the empty
\* string are false
Given(x) == x # None /\ x # <<>>

\* main: with --repo and --watcher it goes on to check_single_repo with
\* that watcher; with --repo alone it looks the watcher up, goes on when
\* the lookup gave a watcher that is true, reports the repository as not
\* found when it gave None or an empty one, and is left by the exception
\* when the lookup raised; with --watcher alone it reports that --repo is
\* missing; with neither it runs the full check
find_watcher ==
    /\ pc = "main"
    /\ IF Given(single.repo)
       THEN IF Given(single.opt)
            THEN /\ single' = [single EXCEPT !.found = single.opt]
                 /\ pc' = "single"
            ELSE LET found_watcher ==
                         find_repo_watcher_in_config(single.repo, single.repos)
                 IN CASE found_watcher = <<"AttributeError">> ->
                           /\ single' = [single EXCEPT !.rs.how = "raised"]
                           /\ pc' = "raised"
                      [] ~Given(found_watcher) ->
                           /\ single' = [single EXCEPT !.rs.how = "not_found"]
                           /\ pc' = "finished"
                      [] OTHER ->
                           /\ single' = [single EXCEPT !.found = found_watcher]
                           /\ pc' = "single"
       ELSE IF Given(single.opt)
            THEN /\ single' = [single EXCEPT !.rs.how = "no_repo"]
                 /\ pc' = "finished"
            ELSE /\ single' = [single EXCEPT !.rs.how = "full_check", !.mode = "full"]
                 /\ pc' = "start"
    /\ UNCHANGED <<idx, runVars, startVars, dl, reg, file_data, expected, got,
                   maint, pair, loader, sharedVars, prev, entryVars, store0>>

\* check_single_repo up to processor.process(): the store is built (or the
\* function returns), the notifiers are initialised, and the RepoProcessor
\* is constructed from an entry made of the repository, the watcher and an
\* empty "config"
check_single_repo ==
    /\ pc = "single"
    /\ IF ~get_backend_ok(persistence)
       THEN /\ backend' = "failed"
            /\ pc' = "finished"
            /\ single' = [single EXCEPT !.rs.how = "no_backend"]
            /\ UNCHANGED <<notifiers, entry, store0>>
       ELSE /\ backend' = "ok"
            /\ notifiers' = get_notifiers(notifier_confs)
            /\ entry' = Entry(SingleRepo, single.found, EmptyConf)
            /\ single' = [single EXCEPT
                            !.s = Resolution(Entry(SingleRepo, single.found, EmptyConf))]
            /\ store0' = redis_set
            /\ pc' = "resolve"
    /\ UNCHANGED <<idx, nrepos, forceEnv, envV, globalUpload, persistence,
                   notifier_confs, run, dl, reg, file_data, expected, got, maint,
                   pair, loader, sharedVars, prev, merged_conf, watcher, release,
                   last_tag, attachments, ai, ni, calls, outcome>>

\* check_single_repo once processor.process() is over: it returns
single_repo_return ==
    /\ pc = "end"
    /\ single.mode = "single"
    /\ single' = [single EXCEPT
                    !.rs = [how |-> "processed", tag |-> release.tag,
                            outcome |-> outcome,
                            downloads |-> Cardinality({i \in 1..Len(calls) :
                                                          calls[i].op = "download"}),
                            sends |-> Cardinality({i \in 1..Len(calls) :
                                                      calls[i].op = "send"})]]
    /\ pc' = "finished"
    /\ EntryReset
    /\ written' = {}
    /\ UNCHANGED <<idx, runVars, startVars, dl, reg, file_data, expected, got,
                   maint, pair, loader, redis_set, watcher_cache, watchers, uses,
                   prev, store0>>

\* main is called again, without options, over the same configuration and
\* with the Redis set as it was before the single-repository call
main_full ==
    /\ pc \in {"finished", "raised"}
    /\ single.mode = "single"
    /\ single' = [single EXCEPT !.mode = "full"]
    /\ pc' = "start"
    /\ redis_set' = single.store
    /\ store0' = single.store
    /\ backend' = "none"
    /\ notifiers' = <<>>
    /\ watcher_cache' = [k \in {} |-> 0]
    /\ watchers' = <<>>
    /\ uses' = {}
    /\ UNCHANGED <<idx, nrepos, forceEnv, envV, globalUpload, persistence,
                   notifier_confs, run, dl, reg, file_data, expected, got, maint,
                   pair, loader, written, prev, entryVars>>

\* run_full_check: the for loop takes the next entry of config["repos"]
full_check_entry ==
    /\ single.mode = "full"
    /\ idx < Len(single.repos)
    /\ NextEntry({single.repos[idx + 1]})

\* run_full_check: process() of the entry is over and the loop goes on
full_check_return ==
    /\ single.mode = "full"
    /\ process_return

\* the calls, over a configuration with one notifier: the repository of an
\* entry of config["repos"] without --watcher; calls with --watcher (a
\* watcher of the configuration, one it does not have, an empty one); calls
\* without --repo or with an empty one; a call over a configuration whose
\* store cannot be built
SingleCalls ==
    {[repos |-> rs, i |-> i, repo |-> <<"g">>, opt |-> None, p |-> RedisConf] :
        rs \in SingleRepoLists, i \in 1..2}
    \cup {[repos |-> <<Entry(<<"g">>, <<"w">>, EmptyConf)>>, i |-> 1, repo |-> r,
           opt |-> o, p |-> RedisConf] :
             r \in {<<"g">>, <<>>, None}, o \in {<<"a">>, <<"q">>, <<>>, None}}
    \cup {[repos |-> <<Entry(<<"g">>, <<"w">>, EmptyConf)>>, i |-> 1,
           repo |-> <<"g">>, opt |-> None, p |-> PersistenceConf("file", TRUE)]}

InitSingle ==
    /\ pc = "main"
    /\ idx = 0
    /\ written = {}
    /\ watcher_cache = [k \in {} |-> 0]
    /\ watchers = <<>>
    /\ uses = {}
    /\ prev = NoPrev
    /\ entry = NoEntry
    /\ merged_conf = EmptyConf
    /\ watcher = 0
    /\ release = NoRelease
    /\ last_tag = None
    /\ attachments = <<>>
    /\ ai = 0
    /\ ni = 0
    /\ calls = <<>>
    /\ outcome = "none"
    /\ run = 1
    /\ backend = "none"
    /\ forceEnv = None
    /\ envV = "unset"
    /\ globalUpload \in BOOLEAN
    /\ notifiers = <<>>
    /\ notifier_confs = ConfsFor(<<"text">>)
    /\ dl = [state |-> "idle", attempt |-> 0, waits |-> <<>>, errors |-> <<>>,
             raised |-> "none"]
    /\ reg = [kind |-> "none", conf |-> EmptyConf, result |-> "none"]
    /\ file_data = [k \in {} |-> None]
    /\ expected = [k \in {} |-> None]
    /\ got = [key |-> None, redis |-> None, file |-> None]
    /\ maint = NoMaint
    /\ pair = NoPair
    /\ loader = NoLoader
    /\ \E c \in SingleCalls, st \in SingleStores :
          /\ c.i <= Len(c.repos)
          /\ c.repos[c.i] # ScalarEntry
          /\ c.repos[c.i].repo = <<"g">>
          /\ persistence = c.p
          /\ nrepos = Len(c.repos)
          /\ redis_set = st
          /\ store0 = st
          /\ single = [NoSingle EXCEPT !.repos = c.repos, !.i = c.i,
                                       !.repo = c.repo, !.opt = c.opt,
                                       !.store = st, !.mode = "single"]

NextSingle ==
    \/ find_watcher
    \/ check_single_repo
    \/ single_repo_return
    \/ main_full
    \/ get_backend
    \/ init_notifiers
    \/ full_check_entry
    \/ Finish
    \/ get_watcher
    \/ fetch_latest_release(SingleReleases)
    \/ is_new_release
    \/ download_step
    \/ process_assets
    \/ send_step
    \/ notify_all
    \/ cleanup
    \/ update_persistence
    \/ full_check_return

SingleSpec == InitSingle /\ [][NextSingle]_vars

(***************************************************************************)
(* HTTPConfigLoader.load on its own, under its retry decorator, against a  *)
(* server whose answers to the successive requests are given.              *)
(***************************************************************************)
LoadMaxAttempts == 3
LoadWaitMultiplier == 1
LoadWaitMin == 1
LoadWaitMax == 5

\* what a request can meet: a configuration ("ok"), a timeout, a refused
\* connection, a 4xx or 5xx status, an empty body, a body that is not YAML
LoadResponses == {"ok", "timeout", "connection", "http_error", "empty", "bad_yaml"}

\* the answers to the first, second and third request
LoadPlans == [1..LoadMaxAttempts -> LoadResponses]

\* the exception classes of requests, all of them RequestException
RequestExceptions == {"RequestException", "requests.ConnectionError", "Timeout",
                      "HTTPError"}

\* what requests.get or raise_for_status raises for a response, "none" when
\* they return
request_error(resp) ==
    CASE resp = "timeout" -> "Timeout"
      [] resp = "connection" -> "requests.ConnectionError"
      [] resp = "http_error" -> "HTTPError"
      [] OTHER -> "none"

\* the body of load: how it ends for a response. Its except clauses turn a
\* RequestException into the builtin ConnectionError and a YAMLError into
\* ValueError; an empty body raises ValueError
load_body(resp) ==
    IF request_error(resp) \in RequestExceptions THEN "builtins.ConnectionError"
    ELSE IF resp \in {"empty", "bad_yaml"} THEN "ValueError"
    ELSE "ok"

\* retry_if_exception_type(requests.RequestException)
LoadRetryable(exc) == exc \in RequestExceptions

\* wait_exponential(multiplier=1, min=1, max=5) after the failed attempt n
load_wait(n) ==
    Max(Max(0, LoadWaitMin), Min(LoadWaitMultiplier * Pow2(n - 1), LoadWaitMax))

\* one attempt of load and the decision of the decorator: return, raise
\* (reraise=True), or sleep and try again
load_attempt ==
    /\ pc = "load_config"
    /\ loader.state = "trying"
    /\ LET n == loader.attempt + 1
           o == load_body(loader.plan[n])
           again == o # "ok" /\ LoadRetryable(o) /\ n < LoadMaxAttempts
       IN loader' = [loader EXCEPT
                       !.attempt = n,
                       !.errors = Append(loader.errors, o),
                       !.waits = IF again THEN Append(loader.waits, load_wait(n))
                                 ELSE loader.waits,
                       !.state = IF o = "ok" THEN "returned"
                                 ELSE IF again THEN "trying" ELSE "raised",
                       !.raised = IF o = "ok" \/ again THEN "none" ELSE o]
    /\ UNCHANGED <<pc, idx, runVars, startVars, dl, reg, file_data, expected, got,
                   maint, pair, single, sharedVars, prev, entryVars, store0>>

InitLoader ==
    /\ pc = "load_config"
    /\ InitQuiet
    /\ dl = [state |-> "idle", attempt |-> 0, waits |-> <<>>, errors |-> <<>>,
             raised |-> "none"]
    /\ reg = [kind |-> "none", conf |-> EmptyConf, result |-> "none"]
    /\ file_data = [k \in {} |-> None]
    /\ expected = [k \in {} |-> None]
    /\ got = [key |-> None, redis |-> None, file |-> None]
    /\ maint = NoMaint
    /\ pair = NoPair
    /\ single = NoSingle
    /\ \E plan \in LoadPlans :
          loader = [NoLoader EXCEPT !.state = "trying", !.plan = plan]

NextLoader == load_attempt

LoaderSpec == InitLoader /\ [][NextLoader]_vars

(***************************************************************************)
(* Properties                                                              *)
(***************************************************************************)
CallsOf(op) == {i \in 1..Len(calls) : calls[i].op = op}

\* get_last_release returned for the current entry
Decided == \E i \in CallsOf("get") : calls[i].res = "ok"

ActOps == {"download", "send", "unlink", "set"}

\* C1: when the tag read from the store equals the fetched tag and
\* FORCE_NOTIFY is not set, process() makes no download, no send, no unlink
\* and no set_last_release call, and leaves the store and the downloads
\* directory as they were: it ends as "up to date" right after the read.
C1_UpToDateNoEffects ==
    (Decided /\ last_tag = release.tag /\ forceEnv = None)
        => /\ pc = "end"
           /\ outcome = "up_to_date"
           /\ \A i \in 1..Len(calls) : calls[i].op \notin ActOps
           /\ redis_set = store0
           /\ written = {}

\* an up-to-date entry of a run that has notifiers and would download assets
C1_Witness ==
    /\ pc = "end"
    /\ outcome = "up_to_date"
    /\ forceEnv = None
    /\ Len(notifiers) > 0
    /\ upload_assets
    /\ Len(release.assets) > 0

\* C2: when the fetched tag differs from the tag read from the store (or
\* none is stored), set_last_release is called with the fetched tag exactly
\* once by the time process() ends, never earlier than the return of the
\* send of every notifier; get_last_release is called once, before it.
C2_CommitOnceAfterNotify ==
    (Decided /\ last_tag # release.tag)
        => /\ Cardinality(CallsOf("get")) = 1
           /\ Cardinality(CallsOf("set")) <= 1
           /\ pc = "end" => Cardinality(CallsOf("set")) = 1
           /\ \A j \in CallsOf("set") :
                /\ calls[j].f = release.tag
                /\ \A i \in CallsOf("get") : i < j
                /\ \A n \in 1..Len(notifiers) :
                     \E i \in CallsOf("send") : calls[i].n = n /\ i < j
                /\ \A i \in CallsOf("send") : i < j

\* a new release of a run with two notifiers was committed
C2_Witness ==
    /\ pc = "end"
    /\ Decided
    /\ last_tag # release.tag
    /\ Len(notifiers) = 2
    /\ Cardinality(CallsOf("send")) = 2
    /\ Cardinality(CallsOf("set")) = 1

\* the entry handled just before this one was handled to its end without an
\* error, and this one has the same adapter key, the same repository and the
\* same fetched tag
SameAsPrevious ==
    /\ prev.outcome \in {"processed", "up_to_date"}
    /\ entry # NoEntry
    /\ prev.key = Key(entry)
    /\ prev.tag = release.tag

\* C3: an entry handled twice in a row with the same repository, adapter
\* key and fetched tag, FORCE_NOTIFY unset and no error the first time, is
\* up to date the second time: once the store was read, process() ends
\* with no send and no set_last_release.
C3_SecondPassUpToDate ==
    (SameAsPrevious /\ forceEnv = None /\ Decided)
        => /\ pc = "end"
           /\ outcome = "up_to_date"
           /\ CallsOf("send") = {}
           /\ CallsOf("set") = {}

\* C4: with FORCE_NOTIFY present, the empty value included, an entry whose
\* stored tag equals the fetched tag is not classified up to date: when
\* process() ends every notifier was sent to and set_last_release was
\* called once with that tag.
C4_ForcedRenotify ==
    (Decided /\ last_tag = release.tag /\ forceEnv # None)
        => /\ outcome # "up_to_date"
           /\ pc = "end" =>
                /\ \A n \in 1..Len(notifiers) :
                     \E i \in CallsOf("send") : calls[i].n = n
                /\ Cardinality(CallsOf("set")) = 1
                /\ \A j \in CallsOf("set") : calls[j].f = last_tag

\* FORCE_NOTIFY is the empty string and an unchanged tag was notified again
C4_Witness ==
    /\ pc = "end"
    /\ forceEnv = <<>>
    /\ Decided
    /\ last_tag = release.tag
    /\ Cardinality(CallsOf("send")) = 2
    /\ CallsOf("set") # {}

\* C5: when the adapter's fetch raises or returns None, process() ends for
\* that entry with the store and the downloads directory unchanged and no
\* call to the store, to a download or to a notifier; the run does not end
\* there: it ends only once every entry was taken.
C5_FetchFailureAborts ==
    /\ outcome = "no_release"
         => /\ pc = "end"
            /\ calls = <<>>
            /\ redis_set = store0
            /\ written = {}
    /\ (pc = "finished" /\ prev.outcome = "no_release") => idx = nrepos

\* the entry after one whose fetch failed is being committed
C5_Witness ==
    /\ prev.outcome = "no_release"
    /\ pc = "commit"
    /\ idx = 2

SendFailed == \E i \in CallsOf("send") : calls[i].res \in {"false", "raise"}

\* C6: a send that returns false or raises stops neither the sends to the
\* remaining notifiers nor the commit: once the notify step is over every
\* notifier was sent to, and when process() ends set_last_release was
\* called with the fetched tag.
C6_NotifierFailureIsolated ==
    SendFailed
        => /\ pc # "notify" =>
                \A n \in 1..Len(notifiers) :
                    \E i \in CallsOf("send") : calls[i].n = n
           /\ pc = "end" =>
                \E j \in CallsOf("set") : calls[j].f = release.tag

\* the first notifier raised, the second was sent to and the tag committed
C6_Witness ==
    /\ pc = "end"
    /\ outcome = "processed"
    /\ \E i, k \in CallsOf("send") :
          /\ calls[i].n = 1 /\ calls[i].res = "raise"
          /\ calls[k].n = 2 /\ calls[k].res = "ok"

\* C7: an exception raised while one entry is constructed or processed does
\* not stop the run: the run reaches its end, and at its end every entry of
\* the list was taken, in order.
C7_RunReachesEnd ==
    /\ <>(pc = "finished")
    /\ [](pc = "finished" => idx = nrepos)
    /\ [][idx' = idx \/ (idx' = idx + 1 /\ idx < nrepos)]_vars

\* C8: every file written into the downloads directory for an entry is
\* deleted before process() returns, whether or not its download succeeded.
C8_DownloadsDeleted ==
    pc \in {"commit", "end"} => written = {}

\* C9: of the entries naming one watcher whose resolved configurations are
\* hashable, those with equal configurations use one adapter instance, and
\* those whose configurations differ in a key or a value use distinct
\* instances, each built from the configuration of the entry using it.
C9_CacheSharing ==
    \A u1, u2 \in uses :
        (u1.wk = u2.wk /\ Hashable(u1.conf) /\ Hashable(u2.conf))
            => IF u1.conf = u2.conf
               THEN u1.inst = u2.inst
               ELSE /\ u1.inst # u2.inst
                    /\ watchers[u1.inst].conf = u1.conf
                    /\ watchers[u2.inst].conf = u2.conf

\* C10: an entry whose resolved configuration is unhashable never uses a
\* cached adapter: its adapter is built for it, from its own configuration
\* object.
C10_UnhashableNeverCached ==
    \A u \in uses : ~Hashable(u.conf) => u.fresh

\* the notifiers whose constructor succeeds, in configuration order
Constructible(confs) ==
    LET ok == SelectSeq(confs, get_notifier_ok)
    IN [i \in 1..Len(ok) |-> message_format(ok[i])]

\* C11: when the constructor of a configured notifier fails at start-up,
\* only that notifier is left out: the list the run works with holds every
\* configured notifier whose constructor succeeds, in order.
C11_OnlyFailedNotifierOmitted ==
    (backend = "ok" /\ pc \notin {"start", "init_notifiers"})
        => notifiers = Constructible(notifier_confs)

\* C12: when get_backend raises (missing or unsupported type, or the
\* store's constructor fails), the run ends there: no entry is taken, no
\* adapter is built, nothing is fetched, downloaded or sent, and the store
\* is not touched.
C12_NoStoreNoRun ==
    backend = "failed"
        => /\ pc = "finished"
           /\ idx = 0
           /\ entry = NoEntry
           /\ watchers = <<>>
           /\ uses = {}
           /\ calls = <<>>
           /\ written = {}
           /\ redis_set = store0

\* a run with entries configured ended at an unsupported persistence type
C12_Witness ==
    /\ backend = "failed"
    /\ persistence.type = "file"
    /\ nrepos > 0
    /\ pc = "finished"

\* the entry handled just before this one, in this run or the run before,
\* failed in its commit, and this one has the same key and fetched tag
AfterCommitFailure ==
    /\ prev.outcome = "commit_failed"
    /\ entry # NoEntry
    /\ prev.key = Key(entry)
    /\ prev.tag = release.tag
    /\ Decided

\* C13 as stated: a failure of set_last_release in the commit step is
\* caught inside the entry, every notifier was sent to, later entries are
\* still taken, and the next time the entry is processed with the same
\* fetched tag it is classified as a new release again.
C13_Original ==
    /\ outcome = "commit_failed"
         => /\ pc = "end"
            /\ \A n \in 1..Len(notifiers) :
                 \E i \in CallsOf("send") : calls[i].n = n
    /\ (pc = "finished" /\ backend = "ok") => idx = nrepos
    /\ AfterCommitFailure => outcome # "up_to_date"

\* C13, amended: the same, for an entry whose stored tag differed from the
\* fetched tag when its commit failed, or when FORCE_NOTIFY is set the next
\* time.  (After a forced re-notify of an unchanged tag the stored tag can
\* survive the failed commit, and the next run without FORCE_NOTIFY finds
\* the entry up to date.)
C13_CommitFailureReappears ==
    /\ outcome = "commit_failed"
         => /\ pc = "end"
            /\ \A n \in 1..Len(notifiers) :
                 \E i \in CallsOf("send") : calls[i].n = n
    /\ (pc = "finished" /\ backend = "ok") => idx = nrepos
    /\ (AfterCommitFailure /\ (prev.new \/ forceEnv # None))
         => outcome # "up_to_date"

\* in the second run an entry whose commit failed in the first is new again
\* and is committed
C13_Witness ==
    /\ AfterCommitFailure
    /\ prev.new
    /\ run = 2
    /\ forceEnv = None
    /\ pc = "end"
    /\ outcome = "processed"

\* C14: download_asset makes at most 5 attempts, makes none after one that
\* succeeded, raises the error of its last attempt when it gives up, and
\* always ends, returning or raising.
C14_AtMostFiveAttempts ==
    /\ [](/\ dl.attempt <= 5
          /\ Len(dl.errors) = dl.attempt
          /\ \A i \in 1..(Len(dl.errors) - 1) : dl.errors[i] # "ok"
          /\ dl.state = "returned" => dl.errors[Len(dl.errors)] = "ok"
          /\ dl.state = "raised" =>
                /\ dl.errors[Len(dl.errors)] # "ok"
                /\ dl.raised = dl.errors[Len(dl.errors)]
          /\ (dl.attempt = 5 /\ dl.errors[5] # "ok") => dl.state = "raised")
    /\ <>(dl.state \in {"returned", "raised"})

\* five attempts failed and the fifth one's error was raised
C14_Witness ==
    /\ dl.state = "raised"
    /\ dl.attempt = 5
    /\ dl.errors = <<"transport", "stream", "transport", "transport", "stream">>
    /\ dl.raised = "stream"

\* C15: an attempt that gets an HTTP 4xx or 5xx response is the last one:
\* download_asset raises that error at once and does not try again.
C15_HttpErrorNotRetried ==
    \A i \in 1..Len(dl.errors) :
        dl.errors[i] = "http"
            => /\ i = Len(dl.errors)
               /\ dl.state = "raised"
               /\ dl.raised = "http"

\* C16 as stated: the waits are 2, 4, 8, 10.
C16_Original ==
    \A k \in 1..Len(dl.waits) : dl.waits[k] = <<2, 4, 8, 10>>[k]

\* C16, amended: the wait after the failed attempt number k is
\* max(2, min(2^(k-1), 10)): the four waits of a fully failing download are
\* 2, 2, 4, 8; every wait is at least 2 and at most 10, and from the second
\* wait on each is twice the one before.
C16_Waits ==
    /\ Len(dl.waits) <= 4
    /\ \A k \in 1..Len(dl.waits) :
         /\ dl.waits[k] = <<2, 2, 4, 8>>[k]
         /\ dl.waits[k] >= 2 /\ dl.waits[k] <= 10
         /\ k > 2 => dl.waits[k] = 2 * dl.waits[k - 1]

\* a download that slept four times
C16_Witness ==
    /\ Len(dl.waits) = 4
    /\ dl.attempt = 5

DownloadFailed == \E i \in CallsOf("download") : calls[i].res # "ok"

\* the names of the assets whose download returned, in the order of the calls
Downloaded ==
    LET ok == SelectSeq(calls, LAMBDA c : c.op = "download" /\ c.res = "ok")
    IN [i \in 1..Len(ok) |-> ok[i].f[1]]

\* C17: a download that fails stops nothing: once the assets step is over
\* every asset of the release was attempted, in release order, and the
\* attachment list holds exactly the assets whose download succeeded, in
\* that order; once the notify step is over every notifier was sent to; and
\* when process() ends set_last_release was called with the fetched tag.
C17_DownloadFailureIsolated ==
    DownloadFailed
        => /\ attachments = Downloaded
           /\ pc # "assets" =>
                /\ Cardinality(CallsOf("download")) = Len(release.assets)
                /\ \A n \in 1..Len(release.assets) :
                      \E i \in CallsOf("download") :
                          /\ calls[i].n = n
                          /\ calls[i].f = <<release.assets[n]>>
                          /\ \A j \in CallsOf("download") : j < i => calls[j].n < n
           /\ pc \notin {"assets", "notify"} =>
                \A n \in 1..Len(notifiers) :
                    \E i \in CallsOf("send") : calls[i].n = n
           /\ pc = "end" =>
                \E j \in CallsOf("set") : calls[j].f = release.tag

\* the first download failed, the second succeeded and was attached, both
\* notifiers were sent to and the tag was committed
C17_Witness ==
    /\ pc = "end"
    /\ outcome = "processed"
    /\ attachments = <<"f2">>
    /\ \E i, k \in CallsOf("download") :
          /\ calls[i].n = 1 /\ calls[i].res # "ok"
          /\ calls[k].n = 2 /\ calls[k].res = "ok"
    /\ \E i, k \in CallsOf("send") : calls[i].n = 1 /\ calls[k].n = 2

\* the entry's own upload_assets when it has one, else the one of its
\* watcher's configuration, else the global default
ResolvedUpload ==
    IF "upload_assets" \in DOMAIN entry.config
    THEN entry.config["upload_assets"].v = 1
    ELSE IF "upload_assets" \in DOMAIN watchers_conf[entry.watcher].config
         THEN watchers_conf[entry.watcher].config["upload_assets"].v = 1
         ELSE globalUpload

\* the assets step of the entry is over
AssetsDone ==
    \/ pc \in {"notify", "cleanup", "commit"}
    \/ pc = "end" /\ outcome \in {"processed", "commit_failed"}

\* C18: the assets of a release are downloaded iff upload_assets resolves
\* true (the entry's override before the watcher's base configuration,
\* before the global default); when it resolves false nothing is downloaded
\* and the attachment list is empty.
C18_UploadAssetsResolution ==
    AssetsDone
        => /\ \A n \in 1..Len(release.assets) :
                 (\E i \in CallsOf("download") : calls[i].n = n) <=> ResolvedUpload
           /\ ~ResolvedUpload =>
                 /\ CallsOf("download") = {}
                 /\ attachments = <<>>

\* the entry's override turns off what its watcher and the global default
\* turn on: a release with assets is notified without a download
C18_Witness ==
    /\ pc = "cleanup"
    /\ globalUpload
    /\ entry.watcher = <<"a">>
    /\ entry.config = Conf1("upload_assets", VBool(FALSE))
    /\ Len(release.assets) = 2
    /\ CallsOf("download") = {}
    /\ CallsOf("send") # {}

\* C19: build_watcher(kind, config) fails iff kind has no registered
\* constructor: for each registered kind and any configuration the call
\* returns an adapter.
C19_FailsIffUnregistered ==
    reg.result # "none"
        => (reg.result # "adapter" <=> reg.kind \notin SupportedTypes)

\* what was last set for a key, None for a key that was never set
LastSet(k) == IF k \in DOMAIN expected THEN expected[k] ELSE None

\* C20: on the file-backed store and on the Redis-set store, get(key)
\* returns exactly the tag of the last successful set(key, tag), and None
\* for a key that was never set, keys and tags containing ":" included.
C20_StoreRoundTrip ==
    got.key # None
        => /\ got.file = LastSet(got.key)
           /\ got.redis = LastSet(got.key)

\* the members of the set that are key k joined to one of the tags by ":"
MembersOf(k) == {m \in redis_set : \E t \in StoreTags : m = k \o <<":">> \o t}

\* C21: after any sequence of set_last_release calls on an empty Redis set,
\* the set holds at most one member per key, and a key that was set has
\* exactly the member carrying the tag of its latest set.
C21_OnlyLatestTagKept ==
    \A k \in StoreKeys :
        /\ Cardinality(MembersOf(k)) <= 1
        /\ k \in DOMAIN expected => MembersOf(k) = {k \o <<":">> \o expected[k]}

\* C22: delete_all_keys_with_prefix(p) removes exactly the members that
\* get_all_keys_with_prefix(p) returned just before it, leaves every other
\* member in the set, and returns the number of members it removed.
C22_DeleteMatchesList ==
    maint.op = "delete"
        => /\ redis_set = maint.before \ maint.listed
           /\ maint.count = Cardinality(maint.before \ redis_set)

\* C27: set_last_release(k1, t) leaves get_last_release(k2) unchanged for
\* every other key k2, and remove_repository(k1) removes no entry of
\* another key, also when one key is a prefix of the other or contains ":".
C27_KeyIndependence ==
    maint.op \in {"set", "remove"}
        => \A k2 \in StoreKeys \ {maint.arg} :
              /\ maint.op = "set" =>
                    get_last_release(redis_set, k2) = get_last_release(maint.before, k2)
              /\ maint.op = "remove" =>
                    \A t \in StoreTags :
                        k2 \o <<":">> \o t \in maint.before
                            => k2 \o <<":">> \o t \in redis_set

\* C23: for a new or forced release every configured notifier's send is
\* called exactly once, with the title "New Release: <repo>", the body
\* render_message gives for that notifier's own format, and the attachment
\* list of the entry; notifiers of different formats get different bodies.
C23_OneSendPerNotifier ==
    /\ \A i \in CallsOf("send") :
          /\ calls[i].title = <<"New Release: ", entry.repo>>
          /\ calls[i].body = render_message(entry.repo, release, notifiers[calls[i].n])
          /\ calls[i].body # <<"ValueError">>
          /\ calls[i].attachments = attachments
          /\ \A j \in CallsOf("send") :
                /\ calls[j].n = calls[i].n => j = i
                /\ notifiers[calls[j].n] # notifiers[calls[i].n]
                      => calls[j].body # calls[i].body
    /\ (pc \in {"cleanup", "commit"} \/ (pc = "end" /\ outcome \in {"processed", "commit_failed"}))
          => \A n \in 1..Len(notifiers) : \E i \in CallsOf("send") : calls[i].n = n

\* the html notifier and the text notifier were both sent the release with
\* its two attachments
C23_Witness ==
    /\ pc = "cleanup"
    /\ Len(attachments) = 2
    /\ Cardinality(CallsOf("send")) = 2
    /\ \E i, j \in CallsOf("send") :
          /\ calls[i].f = <<"html">> /\ calls[j].f = <<"text">>
          /\ calls[i].body # calls[j].body

\* process() ended without an adapter: _get_watcher raised
BuildFailed == pc = "end" /\ watcher = 0

\* C24: when resolving or building the adapter of an entry fails, that
\* entry ends there: the adapter cache is as it was, nothing was fetched,
\* read, downloaded, sent or stored for the entry, and the run goes on to
\* the loop head, where a later entry with the same cache key builds again.
C24_BuildFailureAbortsEntryOnly ==
    /\ [](BuildFailed
            => /\ outcome = "error"
               /\ calls = <<>>
               /\ release = NoRelease
               /\ attachments = <<>>
               /\ written = {}
               /\ redis_set = store0)
    /\ [](\A k \in DOMAIN watcher_cache :
             /\ k.w \in DOMAIN watchers_conf
             /\ CanBuild(watchers_conf[k.w].type))
    /\ [][(pc = "resolve" /\ pc' # "fetch")
            => /\ pc' = "end"
               /\ watcher' = 0
               /\ watcher_cache' = watcher_cache
               /\ watchers' = watchers
               /\ uses' = uses]_vars
    /\ [][BuildFailed => (pc' = "loop" /\ idx' = idx /\ redis_set' = redis_set)]_vars

\* the first entry's adapter could not be built, the second entry built
\* its own and was processed to the end
C24_Witness ==
    /\ idx = 2
    /\ prev.outcome = "error"
    /\ pc = "end"
    /\ outcome = "processed"
    /\ Cardinality(uses) = 1
    /\ \A u \in uses : u.fresh

\* C25: every attachment handed to a notifier is a file that exists during
\* every send of the entry: the downloads are over before the first send,
\* and no attachment is deleted before the last send has returned.
C25_AttachmentsExistDuringSends ==
    /\ pc = "notify"
          => /\ upload_assets => ai = Len(release.assets)
             /\ \A n \in 1..Len(attachments) : attachments[n] \in written
    /\ \A i \in CallsOf("send") :
          /\ \A n \in 1..Len(calls[i].attachments) :
                \E j \in CallsOf("download") :
                    j < i /\ calls[j].res = "ok" /\ calls[j].f = <<calls[i].attachments[n]>>
          /\ \A j \in CallsOf("download") : j < i
          /\ \A j \in CallsOf("unlink") : j > i

\* two notifiers were sent the two downloaded files, which were then deleted
C25_Witness ==
    /\ pc = "commit"
    /\ Len(attachments) = 2
    /\ Cardinality(CallsOf("send")) = 2
    /\ Cardinality(CallsOf("unlink")) = 2
    /\ written = {}

\* C26: when set_last_release fails at one of its store operations, a key
\* that had a tag before the call still has one afterwards:
\* get_last_release returns the previous tag or the new tag, never None.
C26_FailedSetKeepsATag ==
    (pc = "end" /\ outcome = "commit_failed" /\ last_tag # None)
        => get_last_release(redis_set, Key(entry)) \subseteq {last_tag, release.tag}

\* C28: two entries that differ in their adapter key or their repository
\* id get different persistence keys, and the tag committed for one is not
\* what the other reads as its last tag.
C28_KeyIdentity ==
    (pair.state \notin {"idle", "entries"}
        /\ <<pair.a.watcher, pair.a.repo>> # <<pair.b.watcher, pair.b.repo>>)
        => /\ pair.ka # pair.kb
           /\ pair.state = "read" => pair.seen = None

\* both modes have constructed their RepoProcessor for the selected entry
\* what the RepoProcessor of the full run works with, once _get_watcher
\* has returned
FullResolution ==
    [key |-> Key(entry), conf |-> merged_conf, upload |-> upload_assets,
     token |-> ConfGet(merged_conf, "token", VNone)]

\* the single-repository call, made without --watcher, has processed the
\* repository, and the full run is processing the selected entry with its
\* adapter resolved
BothModes ==
    /\ ~Given(single.opt)
    /\ single.repo = single.repos[single.i].repo
    /\ single.rs.how = "processed"
    /\ single.mode = "full"
    /\ idx = single.i
    /\ pc \in {"fetch", "decide", "assets", "notify", "cleanup", "commit", "end"}
    /\ watcher # 0

\* the selected entry is the first of config["repos"] with its repository id
FirstOfItsRepo ==
    \A j \in 1..(single.i - 1) : single.repos[j].repo # single.repos[single.i].repo

\* both modes are through with the entry, met the same stored tag for the
\* key of the full run, fetched the same release and read the store
Comparable ==
    /\ pc = "end"
    /\ get_last_release(store0, Key(entry)) = get_last_release(single.store, Key(entry))
    /\ single.rs.tag = release.tag
    /\ single.rs.outcome \in {"processed", "commit_failed", "up_to_date"}
    /\ outcome \in {"processed", "commit_failed", "up_to_date"}

\* the same decision (up to date or not), the same number of downloads
\* and the same number of sends
SameDecisionAndActions ==
    /\ (single.rs.outcome = "up_to_date") <=> (outcome = "up_to_date")
    /\ single.rs.downloads = Cardinality(CallsOf("download"))
    /\ single.rs.sends = Cardinality(CallsOf("send"))

\* C29 as stated: for an entry of the configuration selected by its
\* repository id, check_single_repo works with the same persistence key and
\* the same resolved configuration, token and upload_assets as
\* run_full_check does for that entry, and from the same store state both
\* take the same decision and the same actions.
C29_Original ==
    BothModes => /\ single.s = FullResolution
                 /\ Comparable => SameDecisionAndActions

\* C29, amended: check_single_repo works with the adapter key of the first
\* entry with that repository id and with no override: its configuration
\* is that adapter's base configuration. For the first entry of a
\* repository id the persistence key is the one of the full run, and when
\* that entry has no override of its own, so are the configuration, the
\* token and upload_assets, and the decision and the downloads from the
\* same store state. When the first entry with the repository id has no
\* "watcher" or an empty one, the repository is reported as not found and
\* nothing is processed in single-repo mode.
C29_SingleModeAgrees ==
    /\ \A j \in 1..Len(single.repos) :
          (/\ ~Given(single.opt)
           /\ Given(single.repo)
           /\ single.repos[j].repo = SingleRepo
           /\ single.repos[j].watcher \in {Absent, <<>>}
           /\ \A k \in 1..(j - 1) : single.repos[k].repo # SingleRepo)
              => /\ single.found = None
                 /\ single.s = NoResolution
                 /\ single.mode = "single" => pc \in {"main", "finished", "raised"}
                 /\ single.rs.how \in {"none", "not_found", "raised"}
                 /\ (single.rs.how = "not_found"
                        /\ \A k \in 1..(j - 1) : single.repos[k] # ScalarEntry)
                      <=> (pc # "main"
                            /\ \A k \in 1..(j - 1) : single.repos[k] # ScalarEntry)
    /\ (~Given(single.opt) /\ single.s # NoResolution)
        => /\ single.s = Resolution(Entry(SingleRepo, single.found, EmptyConf))
           /\ single.s.conf = resolve_env_placeholders_recursive(
                                  watchers_conf[single.found].config, envV)
           /\ \E j \in 1..single.i :
                 /\ single.repos[j].repo = SingleRepo
                 /\ single.repos[j].watcher = single.found
                 /\ \A k \in 1..(j - 1) : single.repos[k].repo # SingleRepo
    /\ BothModes
        => /\ FirstOfItsRepo => single.s.key = Key(entry)
           /\ (FirstOfItsRepo /\ entry.config = EmptyConf)
                 => /\ single.s = FullResolution
                    /\ Comparable => SameDecisionAndActions

\* the second of two entries, the first of its repository id and without
\* an override, on a watcher whose base configuration turns the upload on:
\* both modes resolved the same, downloaded the asset and committed the tag
C29_Witness ==
    /\ BothModes
    /\ Comparable
    /\ single.i = 2
    /\ FirstOfItsRepo
    /\ entry.watcher = <<"a">>
    /\ entry.config = EmptyConf
    /\ single.s = FullResolution
    /\ single.s.upload
    /\ outcome = "processed"
    /\ single.rs.outcome = "processed"
    /\ single.rs.downloads = 1
    /\ single.rs.sends = 1

\* the first n requests of the plan meet a request or transport error
RequestErrorsUpTo(n) ==
    \A i \in 1..n : loader.plan[i] \in {"timeout", "connection", "http_error"}

\* C30: load tries again after a request or transport error, up to 3
\* attempts in all: it raises only after the third such failure, and it
\* returns the configuration when the second or the third request succeeds.
C30_LoadRetries ==
    loader.state \in {"returned", "raised"}
        => /\ (loader.state = "raised" /\ RequestErrorsUpTo(loader.attempt))
                 => loader.attempt = 3
           /\ \A n \in 2..3 :
                 (RequestErrorsUpTo(n - 1) /\ loader.plan[n] = "ok")
                     => (loader.state = "returned" /\ loader.attempt = n)

====
